---- MODULE Spec2Model ----
(***************************************************************************)
(* Offline STT: the record/transcribe session of src/tui.py                *)
(* (RecordTranscribeTUI) and the standalone transcribe_audio of            *)
(* src/transcribe.py, as state machines.                                   *)
(*                                                                         *)
(* The session is a single-threaded event loop: every handler (a key       *)
(* binding, the one-second poll timer) runs to completion, and the         *)
(* transcription task runs between handlers, from one await to the next.   *)
(* Each action below is one handler, or one stretch of run_transcription   *)
(* between two awaits.                                                     *)
(***************************************************************************)
EXTENDS Integers, Sequences, FiniteSets, TLC

(* ------------------------------ bounds -------------------------------- *)
MaxRecs == 1
MaxRuns == 2
MaxSessSegs == 1
MaxSegs == 5
MaxAutoSegs == 3
MaxClock == 0
MaxLen == 4
MaxN == 3
MaxElapsed == 2
MaxBack == 1
MaxRestartRecs == 2
MaxRestartSegs == 1
MaxChunks == 3

(* ----------------------------- constants ------------------------------ *)
None == "None"
NoProc == 0
NoTask == 0
LineBreakEvery == 5
ModelSizes == {"tiny", "medium"}
InfoLanguage == "ru"
DefaultMaxSeconds == 3000
chunk_duration == 30

VARIABLES
    recording_process,    \* NoProc, or the index in procs of the Popen handle
    current_recording,    \* None, or the path of the recording
    selected_audio_file,  \* None, or the picked path
    transcribe_task,      \* NoTask, or the index in runs of the asyncio task
    status,               \* StatusIndicator.status
    model,                \* self._model: None, or the size it was loaded for
    model_size,           \* self._model_size
    runs,                 \* the run_transcription tasks created so far
    timers,               \* pending check_recording_status timers
    exited,               \* App.exit() was called
    max_seconds,          \* self.max_seconds, from MAX_SECONDS
    procs,                \* the recording processes launched so far
    recDir,               \* recordings directory: path -> missing/empty/data
    transDir,             \* transcripts directory: path -> file on disk
    now,                  \* the clock when it was last read, in minutes
    ev,                   \* the step taken last, and what it reported
    t_pc,                 \* transcribe_audio: where the call stands
    t_segs,               \* the segments model.transcribe yields
    t_N,                  \* config["line_break_interval"]
    t_i,                  \* segments taken from the generator so far
    t_disk,               \* the file at output_path
    t_buf,                \* what md_file holds that is not on disk yet
    t_exists,             \* audio_file.exists()
    t_stats,              \* total_chars, elapsed_time and the rate computed last
    t_log,                \* what the call has logged, written and shown, in order
    c_pc,                 \* transcribe_russian.transcribe_audio: where it stands
    device,               \* "cuda" if torch.cuda.is_available() else "cpu"
    sample_rate,          \* info.samplerate, in frames per second
    frames,               \* info.frames: info.duration = frames / samplerate
    num_chunks,           \* int(np.ceil(duration / chunk_duration))
    chunk_i,              \* the loop variable i: chunks gone through so far
    all_transcriptions,   \* the list the loop appends to
    chunk_outcomes,       \* how the processing of each chunk ended, in order
    c_result              \* what the call returned

sessionVars == <<recording_process, current_recording, selected_audio_file,
                 transcribe_task, status, model, model_size>>
tuiVars == <<recording_process, current_recording, selected_audio_file,
             transcribe_task, status, model, model_size, runs, timers, exited,
             max_seconds, procs, recDir, transDir, now, ev>>
tVars == <<t_pc, t_segs, t_N, t_i, t_disk, t_buf, t_exists, t_stats, t_log>>
cVars == <<c_pc, device, sample_rate, frames, num_chunks, chunk_i,
           all_transcriptions, chunk_outcomes, c_result>>
vars == <<recording_process, current_recording, selected_audio_file,
          transcribe_task, status, model, model_size, runs, timers, exited,
          max_seconds, procs, recDir, transDir, now, ev,
          t_pc, t_segs, t_N, t_i, t_disk, t_buf, t_exists, t_stats, t_log,
          c_pc, device, sample_rate, frames, num_chunks, chunk_i,
          all_transcriptions, chunk_outcomes, c_result>>

(* ------------------------------- paths -------------------------------- *)
\* recordings_dir / f"{stamp}.wav", stamp at minute resolution
RecPath(m) == "rec" \o ToString(m) \o ".wav"
\* transcripts_dir / f"{timestamp}.md", timestamp at minute resolution
MdPath(m) == "md" \o ToString(m) \o ".md"
OldPath == "old.wav"
OlderPath == "older.wav"
Minutes == 0..MaxClock
RecPaths == {OldPath, OlderPath} \cup {RecPath(m) : m \in Minutes}
MdPaths == {MdPath(m) : m \in Minutes}

(* -------------------------------- text -------------------------------- *)
\* Text is a sequence of characters; a file is a sequence of characters too
\* (a header field counts as one character).
IsSpace(ch) == ch \in {" ", "\n", "\t"}

RECURSIVE LStrip(_)
LStrip(s) == IF s # <<>> /\ IsSpace(Head(s)) THEN LStrip(Tail(s)) ELSE s

RECURSIVE RStrip(_)
RStrip(s) ==
    IF s # <<>> /\ IsSpace(s[Len(s)]) THEN RStrip(SubSeq(s, 1, Len(s) - 1)) ELSE s

\* str.strip()
Strip(s) == RStrip(LStrip(s))

\* The i-th segment the model yields (segment.text), 1-based: whisper's
\* segments carry a leading blank, some a trailing one.
RawText(i) ==
    <<" ", "s", ToString(i)>> \o (IF i % 2 = 0 THEN <<" ">> ELSE <<>>)

(* ------------------------- session predicates ------------------------- *)
IsRecording == recording_process # NoProc

\* (variant: a task counts as active until the handle is cleared)
IsTranscribingUntilCleared == transcribe_task # NoTask

\* is_transcribing: the task is not None and not done()
IsTranscribing ==
    transcribe_task # NoTask /\ runs[transcribe_task].pc # "done"

Exists(dir, path) == path \in DOMAIN dir /\ dir[path] # "missing"

FileAt(path) == IF path \in DOMAIN recDir THEN recDir[path] ELSE "missing"

\* The step taken last: its handler, the last line it logged, and for a step
\* that ended a recording how the process was stopped and what
\* finish_recording found.
Ev(op, log) ==
    [op |-> op, log |-> log, stop |-> "none", proc |-> NoProc, term |-> FALSE,
     kill |-> FALSE, finished |-> FALSE, file |-> "missing", started |-> FALSE]

(* ----------------------- run_transcription task ----------------------- *)
NewRun(audio, size) ==
    [pc |-> "created", audio |-> audio, size |-> size, cancelReq |-> FALSE,
     kAtCancel |-> 0, hist |-> <<>>, out |-> None, n |-> 0, k |-> 0,
     buf |-> <<>>, fopen |-> FALSE, convRet |-> -1, conv |-> "none",
     outcome |-> "pending", trace |-> <<>>, cause |-> "none", produced |-> 0]

\* A finished task keeps nothing the program reads but "done", and nothing
\* reads a transcript back: what the model remembers of a finished task and
\* of its transcript is dropped when the next task is created.
Forgotten(run) ==
    IF run.pc = "done" THEN [NewRun(None, None) EXCEPT !.pc = "done"] ELSE run

Forget(rs) == [i \in 1..Len(rs) |-> Forgotten(rs[i])]

Stale == <<"(an earlier transcript)">>

OpenPaths(rs) == {rs[i].out : i \in {j \in 1..Len(rs) : rs[j].fopen}}

ForgetFiles(rs, dir) ==
    [p \in DOMAIN dir |->
        IF dir[p].exists /\ p \notin OpenPaths(rs)
        THEN [exists |-> TRUE, data |-> Stale] ELSE dir[p]]

\* What a stretch of the task reads and writes.
Ctx(r) ==
    [run |-> runs[r], status |-> status, model |-> model, msize |-> model_size,
     tdir |-> transDir, log |-> "none"]

SetStatus(c, s, msg) ==
    [c EXCEPT !.status = s, !.run.hist = Append(@, s), !.log = msg]

EndTask(c, how) == [c EXCEPT !.run.pc = "done", !.run.outcome = how]

\* Buffered text file: write() appends to the buffer, the buffer reaches the
\* disk when it has filled up (fl) and when the file is closed.
FlushFile(c) ==
    [c EXCEPT !.tdir[c.run.out] = [exists |-> TRUE, data |-> @.data \o c.run.buf],
              !.run.buf = <<>>]

WriteFile(c, data) == [c EXCEPT !.run.buf = @ \o data]

MaybeFlush(c, fl) == IF fl THEN FlushFile(c) ELSE c

\* leaving "with open(output_path, 'w') as md_file"
CloseFile(c) ==
    IF c.run.fopen THEN [FlushFile(c) EXCEPT !.run.fopen = FALSE] ELSE c

\* (variant: the handler without the file being closed)
OnCancelledNoClose(c) ==
    SetStatus(EndTask(c, "returned"), "cancelled", "Transcription cancelled")

\* except asyncio.CancelledError
OnCancelled(c) ==
    SetStatus(EndTask(CloseFile(c), "returned"), "cancelled",
              "Transcription cancelled")

\* (variant: the failed run goes back to the conversion)
OnExceptionRetry(c) ==
    [SetStatus(CloseFile(c), "error", "Transcription error")
       EXCEPT !.run.pc = "conv_spawn"]

\* except Exception
OnException(c) ==
    SetStatus(EndTask(CloseFile(c), "returned"), "error", "Transcription error")

\* What the task has reported and written, in program order: the detected
\* language, each progress snapshot and each segment line.
Note(what, count, text) == [what |-> what, count |-> count, text |-> text]

Noted(c, what, count, text) ==
    [c EXCEPT !.run.trace = Append(@, Note(what, count, text))]

\* An exception raised inside the try block, and what raised it.
Failed(c, cause) == OnException([c EXCEPT !.run.cause = cause])

\* The statements before the first await: the import, the widget lookups,
\* and inside the try the status and the launch of the converter.
Begin(c, imported) ==
    IF ~imported
    THEN EndTask(c, "raised")
    ELSE [SetStatus(c, "converting", "Converting audio to compatible format...")
            EXCEPT !.run.pc = "conv_spawn"]

\* await asyncio.create_subprocess_exec("ffmpeg", ...) returns or raises
SpawnConverter(c, found) ==
    IF ~found
    THEN Failed(c, "spawn")
    ELSE [c EXCEPT !.run.conv = "running", !.run.pc = "conv_wait"]

StartDecode(c) ==
    [SetStatus(c, "transcribing", "Transcribing audio...")
       EXCEPT !.run.pc = "decode_wait"]

\* (variant: the failure reported, the run going on)
ConversionFailedNoReturn(c) ==
    [SetStatus(c, "error", "Audio conversion failed") EXCEPT !.run.pc = "load_wait"]

\* "if process.returncode != 0": status error, return
ConversionFailed(c) ==
    SetStatus(EndTask(c, "returned"), "error", "Audio conversion failed")

\* (variant: the cached model reused whatever its size)
NeedsLoadWhenEmpty(c) == c.model = None

\* "if self._model is None or self._model_size != model_size"
NeedsLoad(c) == c.model = None \/ c.msize # c.run.size

\* (variant: no loading_model status when the cached model is used)
ConverterExitQuiet(c, rc) ==
    LET c1 == [c EXCEPT !.run.conv = "exited", !.run.convRet = rc]
        c2 == SetStatus(c1, "loading_model", "Loading Whisper model...")
    IN  IF rc # 0 THEN ConversionFailed(c1)
        ELSE IF NeedsLoad(c2) THEN [c2 EXCEPT !.run.pc = "load_wait"]
        ELSE StartDecode(c1)

\* await process.wait() returns
ConverterExit(c, rc) ==
    LET c1 == [c EXCEPT !.run.conv = "exited", !.run.convRet = rc]
        c2 == SetStatus(c1, "loading_model", "Loading Whisper model...")
    IN  IF rc # 0 THEN ConversionFailed(c1)
        ELSE IF NeedsLoad(c2) THEN [c2 EXCEPT !.run.pc = "load_wait"]
        ELSE StartDecode(c2)

\* await asyncio.to_thread(WhisperModel, ...) returns or raises
ModelLoaded(c, ok) ==
    IF ~ok
    THEN Failed(c, "load")
    ELSE StartDecode([c EXCEPT !.model = c.run.size, !.msize = c.run.size])

Header(run) ==
    <<"# Transcription Results\n\n",
      "**Audio File:** " \o run.audio \o "\n\n",
      "**Model:** " \o run.size \o "\n\n",
      "**Language:** " \o InfoLanguage \o "\n\n",
      "---\n\n">>

\* open(output_path, "w"): the file is created, or truncated
OpenOutput(c, path) ==
    [c EXCEPT !.tdir[path] = [exists |-> TRUE, data |-> <<>>],
              !.run.out = path, !.run.fopen = TRUE, !.run.buf = <<>>]

\* (variant: the detected language is not logged)
DecodeReturnedSilent(c, ok, openok, path, fl) ==
    IF ~ok THEN Failed(c, "decode")
    ELSE IF ~openok THEN Failed(c, "open")
    ELSE [MaybeFlush(WriteFile(OpenOutput(c, path), Header(c.run)), fl)
            EXCEPT !.run.pc = "list_wait"]

\* await asyncio.to_thread(self._model.transcribe, ...) returns or raises;
\* then the detected language is logged, the output file opened and the
\* header written
DecodeReturned(c, ok, openok, path, fl) ==
    IF ~ok THEN Failed(c, "decode")
    ELSE LET c1 == Noted([c EXCEPT !.log = "Detected language"],
                         "language", 0, <<>>)
         IN  IF ~openok THEN Failed(c1, "open")
             ELSE [MaybeFlush(WriteFile(OpenOutput(c1, path), Header(c1.run)), fl)
                     EXCEPT !.run.pc = "list_wait"]

\* (variant: the blank line after every third segment)
IsBreakEveryThird(count) == count % 3 = 0

\* "if segment_count % 5 == 0"
IsBreak(count) == count % LineBreakEvery = 0

\* md_file.write(f"{text}\n"), and the blank line
SegmentLine(count) ==
    Strip(RawText(count)) \o <<"\n">>
    \o (IF IsBreak(count) THEN <<"\n">> ELSE <<>>)

\* The text of a line written to the transcript: what stands before its
\* first newline.
RECURSIVE LineText(_)
LineText(line) ==
    IF line = <<>> \/ Head(line) = "\n" THEN <<>>
    ELSE <<Head(line)>> \o LineText(Tail(line))

\* (variant: a snapshot for every second segment only)
UpdateProgressSparse(c, count, text) ==
    IF count % 2 = 0 THEN Noted(c, "progress", count, text) ELSE c

\* progress_widget.update_progress(segment_count, total_chars, speed, text)
UpdateProgress(c, count, text) == Noted(c, "progress", count, text)

\* md_file.write(f"{text}\n") and the blank line, for the count-th segment
WriteSegment(c, count) ==
    Noted(WriteFile(c, SegmentLine(count)), "write", count,
          LineText(SegmentLine(count)))

\* One iteration of "for segment in segments_list", up to its sleep(0): the
\* snapshot is published, then the line is written.
ProcessSegment(c, fl) ==
    LET count == c.run.k + 1
        text == Strip(RawText(count))
    IN  [MaybeFlush(WriteSegment(UpdateProgress(c, count, text), count), fl)
           EXCEPT !.run.k = count, !.run.pc = "emit"]

\* The end of the loop: the file is closed, the statistics logged.
Completed(c) ==
    SetStatus(EndTask(CloseFile(c), "returned"), "done", "Output saved")

EmitNext(c, fl) ==
    IF c.run.k < c.run.n THEN ProcessSegment(c, fl) ELSE Completed(c)

\* await asyncio.to_thread(list, segments_gen) returns the n segments of the
\* stream, or raises what the stream raised after it had produced n segments
ListReturned(c, ok, n, fl) ==
    IF ~ok THEN Failed([c EXCEPT !.run.produced = n], "stream")
    ELSE EmitNext([c EXCEPT !.run.n = n, !.run.produced = n], fl)

\* (variant: the cancellation request is not seen at the await)
ResumeUnobserved(c, res) == res

\* A CancelledError is thrown into the task at the await it is suspended on.
Resume(c, res) == IF c.run.cancelReq THEN OnCancelled(c) ELSE res

\* datetime.now(): the clock has not gone back since it was last read.
ClockReadings == now..MaxClock

Apply(r, c) ==
    /\ runs' = [runs EXCEPT ![r] = c.run]
    /\ status' = c.status
    /\ model' = c.model
    /\ model_size' = c.msize
    /\ transDir' = c.tdir
    /\ ev' = [Ev("run", c.log) EXCEPT !.proc = r]
    /\ UNCHANGED <<recording_process, current_recording, selected_audio_file,
                   transcribe_task, timers, exited, max_seconds, procs,
                   recDir>>
    /\ UNCHANGED <<tVars, cVars>>

\* First step of the task. A task cancelled before its first step never runs
\* the coroutine's body: the CancelledError is raised at its very start.
RunStart(r) ==
    /\ runs[r].pc = "created"
    /\ UNCHANGED now
    /\ \E imported \in BOOLEAN :
          Apply(r, IF runs[r].cancelReq
                   THEN EndTask(Ctx(r), "cancelled")
                   ELSE Begin(Ctx(r), imported))

RunSpawned(r) ==
    /\ runs[r].pc = "conv_spawn"
    /\ UNCHANGED now
    /\ \E found \in BOOLEAN :
          Apply(r, Resume(Ctx(r), SpawnConverter(Ctx(r), found)))

RunConverted(r) ==
    /\ runs[r].pc = "conv_wait"
    /\ UNCHANGED now
    /\ \E rc \in {0, 1} :
          Apply(r, Resume(Ctx(r), ConverterExit(Ctx(r), rc)))

RunLoaded(r) ==
    /\ runs[r].pc = "load_wait"
    /\ UNCHANGED now
    /\ \E ok \in BOOLEAN :
          Apply(r, Resume(Ctx(r), ModelLoaded(Ctx(r), ok)))

RunDecoded(r) ==
    /\ runs[r].pc = "decode_wait"
    /\ \E ok \in BOOLEAN, openok \in BOOLEAN, fl \in BOOLEAN, t \in ClockReadings :
          /\ now' = (IF runs[r].cancelReq \/ ~ok THEN now ELSE t)
          /\ Apply(r, Resume(Ctx(r),
                             DecodeReturned(Ctx(r), ok, openok, MdPath(now'), fl)))

RunListed(r, counts) ==
    /\ runs[r].pc = "list_wait"
    /\ UNCHANGED now
    /\ \E ok \in BOOLEAN, n \in counts, fl \in BOOLEAN :
          Apply(r, Resume(Ctx(r), ListReturned(Ctx(r), ok, n, fl)))

RunEmit(r) ==
    /\ runs[r].pc = "emit"
    /\ UNCHANGED now
    /\ \E fl \in BOOLEAN :
          Apply(r, Resume(Ctx(r), EmitNext(Ctx(r), fl)))

(* ------------------------------ handlers ------------------------------ *)
\* start_transcription: the task list with the new task, the task's index
StartTranscription(audio, size) ==
    [runs |-> Append(Forget(runs), NewRun(audio, size)), task |-> Len(runs) + 1,
     tdir |-> ForgetFiles(runs, transDir)]

\* (variant: no recording is ever found on disk)
NeverSaved == FALSE

\* "self.current_recording and self.current_recording.exists()"
RecordingSaved ==
    current_recording # None /\ Exists(recDir, current_recording)

\* (variant: a failed recording leaves the status as it was)
FinishRecordingQuiet(size) ==
    IF RecordingSaved
    THEN [status |-> "idle", log |-> "Starting transcription", started |-> TRUE]
         @@ StartTranscription(current_recording, size)
    ELSE [status |-> status, log |-> "Recording failed or was cancelled",
          started |-> FALSE, runs |-> runs, task |-> transcribe_task,
          tdir |-> transDir]

\* finish_recording, as the values it leaves
FinishRecording(size) ==
    IF RecordingSaved
    THEN [status |-> "idle", log |-> "Starting transcription", started |-> TRUE]
         @@ StartTranscription(current_recording, size)
    ELSE [status |-> "error", log |-> "Recording failed or was cancelled",
          started |-> FALSE, runs |-> runs, task |-> transcribe_task,
          tdir |-> transDir]

\* fins counts the calls of finish_recording made for the process.
NewProc(path) == [st |-> "running", path |-> path, opened |-> FALSE, fins |-> 0]

\* A process that is gone: the Popen object is dropped with the handle.
Gone == [st |-> "exited", path |-> None, opened |-> FALSE, fins |-> 1]

\* The process after one more finish_recording.
Finished(pr) == [Gone EXCEPT !.fins = pr.fins + 1]

\* (variant: a guard that rejects nothing)
NotRejected == FALSE

\* "if self.is_transcribing" of start_recording
RecordRejected == IsTranscribing

\* (variant: the poll timer armed although the launch failed)
StartRecordingArmed ==
    IF IsRecording
    THEN /\ ev' = Ev("toggle_recording", "none")
         /\ UNCHANGED <<recording_process, current_recording, selected_audio_file,
                        transcribe_task, status, runs, timers, procs, transDir,
                        now>>
    ELSE IF RecordRejected
    THEN /\ ev' = Ev("toggle_recording",
                     "Cannot record while transcription is in progress")
         /\ UNCHANGED <<recording_process, current_recording, selected_audio_file,
                        transcribe_task, status, runs, timers, procs, transDir,
                        now>>
    ELSE /\ \E t \in ClockReadings : now' = t
         /\ current_recording' = RecPath(now')
         /\ selected_audio_file' = None
         /\ \E launched \in BOOLEAN :
               IF ~launched
               THEN /\ ev' = Ev("toggle_recording", "Error: 'rec' (sox) not found")
                    /\ status' = "error"
                    /\ timers' = timers + 1
                    /\ UNCHANGED <<recording_process, procs>>
               ELSE /\ procs' = Append(procs, NewProc(RecPath(now')))
                    /\ recording_process' = Len(procs) + 1
                    /\ ev' = Ev("toggle_recording", "Recording to")
                    /\ status' = "recording"
                    /\ timers' = timers + 1
         /\ UNCHANGED <<transcribe_task, runs, transDir>>

\* start_recording
StartRecording ==
    IF IsRecording
    THEN /\ ev' = Ev("toggle_recording", "none")
         /\ UNCHANGED <<recording_process, current_recording, selected_audio_file,
                        transcribe_task, status, runs, timers, procs, transDir,
                        now>>
    ELSE IF RecordRejected
    THEN /\ ev' = Ev("toggle_recording",
                     "Cannot record while transcription is in progress")
         /\ UNCHANGED <<recording_process, current_recording, selected_audio_file,
                        transcribe_task, status, runs, timers, procs, transDir,
                        now>>
    ELSE /\ \E t \in ClockReadings : now' = t
         /\ current_recording' = RecPath(now')
         /\ selected_audio_file' = None
         /\ \E launched \in BOOLEAN :
               IF ~launched
               THEN /\ ev' = Ev("toggle_recording", "Error: 'rec' (sox) not found")
                    /\ status' = "error"
                    /\ UNCHANGED <<recording_process, procs, timers>>
               ELSE /\ procs' = Append(procs, NewProc(RecPath(now')))
                    /\ recording_process' = Len(procs) + 1
                    /\ ev' = Ev("toggle_recording", "Recording to")
                    /\ status' = "recording"
                    /\ timers' = timers + 1
         /\ UNCHANGED <<transcribe_task, runs, transDir>>

\* The outcomes of the graceful path of stop_recording: the process exits
\* within the wait, the wait times out, or the process is not found.
StopOutcomes(pr) ==
    IF pr.st = "running" THEN {"exits", "timeout"} ELSE {"exits", "gone"}

\* (variant: no escalation after the wait has timed out)
SignalledGraceful(pr, outcome) ==
    CASE outcome = "exits" -> [term |-> TRUE, kill |-> FALSE, alive |-> FALSE]
      [] outcome = "timeout" -> [term |-> TRUE, kill |-> FALSE, alive |-> TRUE]
      [] outcome = "gone" -> [term |-> FALSE, kill |-> FALSE, alive |-> FALSE]

\* SIGTERM to the group and wait(timeout=5); SIGKILL to the group on
\* ProcessLookupError or TimeoutExpired: the signals sent, and whether the
\* process is still running afterwards.
Signalled(pr, outcome) ==
    CASE outcome = "exits" -> [term |-> TRUE, kill |-> FALSE, alive |-> FALSE]
      [] outcome = "timeout" -> [term |-> TRUE, kill |-> TRUE, alive |-> FALSE]
      [] outcome = "gone" -> [term |-> FALSE, kill |-> FALSE, alive |-> FALSE]

\* (variant: ProcessLookupError leaves stop_recording, the handle stays)
StopResultRaising(size, outcome) ==
    LET p == recording_process
        sig == Signalled(procs[p], outcome)
        fin == FinishRecording(size)
    IN  IF outcome = "gone"
        THEN [procs |-> procs, proc |-> p, status |-> status, runs |-> runs,
              task |-> transcribe_task, tdir |-> transDir,
              ev |-> [Ev("stop", "none") EXCEPT !.stop = outcome, !.proc = p]]
        ELSE [procs |-> [procs EXCEPT ![p] = IF sig.alive
                                             THEN [@ EXCEPT !.fins = @ + 1]
                                             ELSE Finished(@)],
              proc |-> NoProc, status |-> fin.status, runs |-> fin.runs,
              task |-> fin.task, tdir |-> fin.tdir,
              ev |-> [op |-> "stop", log |-> fin.log, stop |-> outcome,
                      proc |-> p, term |-> sig.term, kill |-> sig.kill,
                      finished |-> TRUE, file |-> FileAt(current_recording),
                      started |-> fin.started]]

\* stop_recording on a handle, as the values it leaves
StopResult(size, outcome) ==
    LET p == recording_process
        sig == Signalled(procs[p], outcome)
        fin == FinishRecording(size)
    IN  [procs |-> [procs EXCEPT ![p] = IF sig.alive
                                        THEN [@ EXCEPT !.fins = @ + 1]
                                        ELSE Finished(@)],
         proc |-> NoProc, status |-> fin.status, runs |-> fin.runs,
         task |-> fin.task, tdir |-> fin.tdir,
         ev |-> [op |-> "stop", log |-> fin.log, stop |-> outcome, proc |-> p,
                 term |-> sig.term, kill |-> sig.kill, finished |-> TRUE,
                 file |-> FileAt(current_recording), started |-> fin.started]]

NoStop ==
    [procs |-> procs, proc |-> recording_process, status |-> status,
     runs |-> runs, task |-> transcribe_task, tdir |-> transDir,
     ev |-> Ev("stop", "none")]

StopChoices ==
    IF IsRecording THEN StopOutcomes(procs[recording_process]) ELSE {"none"}

StopRecording(size) ==
    \E outcome \in StopChoices :
       LET res == IF recording_process = NoProc THEN NoStop
                  ELSE StopResult(size, outcome)
       IN  /\ procs' = res.procs
           /\ recording_process' = res.proc
           /\ status' = res.status
           /\ ev' = [res.ev EXCEPT !.op = "toggle_recording"]
           /\ runs' = res.runs
           /\ transcribe_task' = res.task
           /\ transDir' = res.tdir
           /\ UNCHANGED <<current_recording, selected_audio_file, timers, now>>

\* action_toggle_recording (key r, the Record/Stop button)
ActionToggleRecording ==
    /\ ~exited
    /\ \E size \in ModelSizes :
          IF IsRecording THEN StopRecording(size) ELSE StartRecording
    /\ Len(runs') <= MaxRuns
    /\ UNCHANGED <<model, model_size, exited, max_seconds, recDir>>
    /\ UNCHANGED <<tVars, cVars>>

\* (variant: a timer that finds no handle finishes the last recording again)
CheckRecordingStatusUnguarded ==
    /\ ~exited
    /\ timers > 0
    /\ LET p == IF recording_process = NoProc THEN Len(procs)
                ELSE recording_process
       IN  IF p = 0 \/ (recording_process # NoProc /\ procs[p].st = "running")
           THEN /\ timers' = (IF p = 0 THEN timers - 1 ELSE timers)
                /\ ev' = Ev("check_recording_status", "none")
                /\ UNCHANGED <<recording_process, status, runs, transcribe_task,
                               procs, transDir>>
           ELSE \E size \in ModelSizes :
                  LET fin == FinishRecording(size) IN
                  /\ timers' = timers - 1
                  /\ procs' = [procs EXCEPT ![p] = Finished(@)]
                  /\ recording_process' = NoProc
                  /\ status' = fin.status
                  /\ ev' = [Ev("check_recording_status", fin.log) EXCEPT
                              !.proc = p, !.finished = TRUE,
                              !.file = FileAt(current_recording),
                              !.started = fin.started]
                  /\ runs' = fin.runs
                  /\ transcribe_task' = fin.task
                  /\ transDir' = fin.tdir
    /\ Len(runs') <= MaxRuns
    /\ UNCHANGED <<current_recording, selected_audio_file, model, model_size,
                   exited, max_seconds, recDir, now>>
    /\ UNCHANGED <<tVars, cVars>>

\* check_recording_status, the callback of set_timer(1, ...)
CheckRecordingStatus ==
    /\ ~exited
    /\ timers > 0
    /\ IF recording_process = NoProc
       THEN /\ timers' = timers - 1
            /\ ev' = Ev("check_recording_status", "none")
            /\ UNCHANGED <<recording_process, status, runs, transcribe_task,
                           procs, transDir>>
       ELSE IF procs[recording_process].st = "running"
       THEN /\ timers' = timers
            /\ ev' = Ev("check_recording_status", "none")
            /\ UNCHANGED <<recording_process, status, runs, transcribe_task,
                           procs, transDir>>
       ELSE \E size \in ModelSizes :
              LET fin == FinishRecording(size) IN
              /\ timers' = timers - 1
              /\ procs' = [procs EXCEPT ![recording_process] = Finished(@)]
              /\ recording_process' = NoProc
              /\ status' = fin.status
              /\ ev' = [Ev("check_recording_status", fin.log) EXCEPT
                          !.proc = recording_process, !.finished = TRUE,
                          !.file = FileAt(current_recording),
                          !.started = fin.started]
              /\ runs' = fin.runs
              /\ transcribe_task' = fin.task
              /\ transDir' = fin.tdir
    /\ Len(runs') <= MaxRuns
    /\ UNCHANGED <<current_recording, selected_audio_file, model, model_size,
                   exited, max_seconds, recDir, now>>
    /\ UNCHANGED <<tVars, cVars>>

AudioFiles == {p \in DOMAIN recDir : recDir[p] # "missing"}

\* st_mtime order of the recordings directory: the files are written one
\* recording at a time, in the order of their timestamps.
MTime(p) ==
    IF p = OlderPath THEN -2
    ELSE IF p = OldPath THEN -1
    ELSE CHOOSE m \in Minutes : RecPath(m) = p

LatestAudio == CHOOSE p \in AudioFiles : \A q \in AudioFiles : MTime(q) <= MTime(p)

\* "if self.is_recording" of action_transcribe
TranscribeRejectedRecording == IsRecording

\* "if self.is_transcribing" of action_transcribe
TranscribeRejectedBusy == IsTranscribing

\* (variant: the recording before the picked file)
PreferredAudioRecordingFirst ==
    IF current_recording # None THEN current_recording ELSE selected_audio_file

\* "self.selected_audio_file or self.current_recording"
PreferredAudio ==
    IF selected_audio_file # None THEN selected_audio_file ELSE current_recording

\* action_transcribe (key t, the Transcribe button)
ActionTranscribe ==
    /\ ~exited
    /\ IF TranscribeRejectedRecording
       THEN /\ ev' = Ev("transcribe", "Cannot transcribe while recording")
            /\ UNCHANGED <<runs, transcribe_task, transDir>>
       ELSE IF TranscribeRejectedBusy
       THEN /\ ev' = Ev("transcribe", "Transcription already in progress")
            /\ UNCHANGED <<runs, transcribe_task, transDir>>
       ELSE IF PreferredAudio = None /\ AudioFiles = {}
       THEN /\ ev' = Ev("transcribe", "No audio files found")
            /\ UNCHANGED <<runs, transcribe_task, transDir>>
       ELSE \E size \in ModelSizes :
              LET audio == IF PreferredAudio = None THEN LatestAudio
                           ELSE PreferredAudio
                  st == StartTranscription(audio, size)
              IN  /\ ev' = [Ev("transcribe", "Starting transcription")
                              EXCEPT !.started = TRUE]
                  /\ runs' = st.runs
                  /\ transcribe_task' = st.task
                  /\ transDir' = st.tdir
    /\ Len(runs') <= MaxRuns
    /\ UNCHANGED <<recording_process, current_recording, selected_audio_file,
                   status, model, model_size, timers, exited, max_seconds, procs,
                   recDir, now>>
    /\ UNCHANGED <<tVars, cVars>>

\* on_file_picked, the result of the file picker (None when dismissed)
OnFilePicked ==
    /\ ~exited
    /\ \E result \in {None} \cup AudioFiles :
          IF result # None
          THEN /\ selected_audio_file' = result
               /\ ev' = Ev("file_picked", "Selected file")
          ELSE /\ ev' = Ev("file_picked", "none")
               /\ UNCHANGED selected_audio_file
    /\ UNCHANGED <<recording_process, current_recording, transcribe_task, status,
                   model, model_size, runs, timers, exited, max_seconds, procs,
                   recDir,
                   transDir, now>>
    /\ UNCHANGED <<tVars, cVars>>

\* (variant: quitting cancels nothing)
CancelNothing(rs, t) == rs

\* asyncio.Task.cancel() on the session's task, if it is not done
Cancel(rs, t) ==
    IF t # NoTask /\ rs[t].pc # "done"
    THEN [rs EXCEPT ![t].cancelReq = TRUE, ![t].kAtCancel = rs[t].k]
    ELSE rs

\* action_request_quit (key q)
ActionRequestQuit ==
    /\ ~exited
    /\ \E size \in ModelSizes, outcome \in StopChoices :
          LET res == IF IsRecording THEN StopResult(size, outcome) ELSE NoStop
          IN  /\ procs' = res.procs
              /\ recording_process' = res.proc
              /\ status' = res.status
              /\ ev' = [res.ev EXCEPT !.op = "request_quit"]
              /\ transcribe_task' = res.task
              /\ runs' = Cancel(res.runs, res.task)
              /\ transDir' = res.tdir
    /\ exited' = TRUE
    /\ UNCHANGED max_seconds
    /\ Len(runs') <= MaxRuns
    /\ UNCHANGED <<current_recording, selected_audio_file, model, model_size,
                   timers, recDir, now>>
    /\ UNCHANGED <<tVars, cVars>>

(* ----------------------------- environment ---------------------------- *)
\* Nothing reads the clock or the recordings once the application has exited.
EnvFrame ==
    /\ ~exited
    /\ UNCHANGED <<recording_process, current_recording, selected_audio_file,
                   transcribe_task, status, model, model_size, runs, timers,
                   exited, max_seconds, transDir>>
    /\ UNCHANGED <<tVars, cVars>>

\* The recording tool exits on its own, or "timeout" ends it.
ProcExit ==
    /\ \E p \in 1..Len(procs) :
          /\ procs[p].st = "running"
          /\ procs' = [procs EXCEPT ![p].st = "exited"]
    /\ ev' = Ev("proc_exit", "none")
    /\ UNCHANGED <<recDir, now>>
    /\ EnvFrame

\* The recording tool creates its output file (truncating what is there), and
\* may have written audio to it.
RecWrite ==
    /\ \E p \in 1..Len(procs), content \in {"empty", "data"} :
          /\ procs[p].st = "running"
          /\ ~procs[p].opened
          /\ procs' = [procs EXCEPT ![p].opened = TRUE]
          /\ recDir' = [recDir EXCEPT ![procs[p].path] = content]
    /\ ev' = Ev("rec_write", "none")
    /\ UNCHANGED now
    /\ EnvFrame

(* ------------------- transcribe.py: transcribe_audio ------------------ *)
TextChoices == {<<" ", "a">>, <<"b", " ">>}

RECURSIVE SeqsUpTo(_)
SeqsUpTo(len) ==
    IF len = 0 THEN {<<>>}
    ELSE LET shorter == SeqsUpTo(len - 1)
         IN  shorter \cup {Append(q, x) : q \in {y \in shorter : Len(y) = len - 1},
                                          x \in TextChoices}

AudioName == "audio.wav"
DefaultModel == "base"
DefaultLanguage == "ru"

THeader ==
    <<"# Transcription Results\n\n",
      "## Audio File: " \o AudioName \o "\n\n",
      "## Model: " \o DefaultModel \o "\n\n",
      "## Language: " \o DefaultLanguage \o "\n\n",
      "## Transcription:\n\n">>

\* (variant: the blank line before the interval is full)
TBreakEarly(i, interval) == i % interval = 0

\* i % line_break_interval == line_break_interval - 1, i the 0-based index
TBreak(i, interval) == i % interval = interval - 1

\* md_file.write(f" {segment_text}\n"), and the blank line
TSegmentLine(i, raw, interval) ==
    <<" ">> \o Strip(raw) \o <<"\n">>
    \o (IF TBreak(i, interval) THEN <<"\n">> ELSE <<>>)

\* The line written for the segment of 0-based index i, then the progress
\* bar moved by one with segment_count as its postfix (show_progress).
TSegmentNotes(i, raw, interval) ==
    <<Note("write", i + 1, LineText(Tail(TSegmentLine(i, raw, interval)))),
      Note("progress", i + 1, <<>>)>>

\* time.time() - start_time: the wall clock, which may be set back while
\* the call runs.
ElapsedReadings == (0 - MaxBack)..MaxElapsed

NoStats == [chars |-> 0, elapsed |-> 0, kind |-> "none", num |-> 0, den |-> 1]

\* The rate as the exact fraction num / den, or the literal 0 of the guard.
Quotient(chars, elapsed) ==
    [chars |-> chars, elapsed |-> elapsed, kind |-> "quotient",
     num |-> chars, den |-> elapsed]

Zero(chars, elapsed) ==
    [chars |-> chars, elapsed |-> elapsed, kind |-> "zero", num |-> 0, den |-> 1]

\* char_rate = total_chars / elapsed_time if elapsed_time > 0 else 0
CharRate(chars, elapsed) ==
    IF elapsed > 0 THEN Quotient(chars, elapsed) ELSE Zero(chars, elapsed)

\* f"{total_chars / elapsed_time:.1f}" of the final statistics
AverageSpeed(chars, elapsed) ==
    IF elapsed = 0
    THEN [chars |-> chars, elapsed |-> elapsed, kind |-> "ZeroDivisionError",
          num |-> chars, den |-> 0]
    ELSE Quotient(chars, elapsed)

TFrame ==
    UNCHANGED <<recording_process, current_recording, selected_audio_file,
                transcribe_task, status, model, model_size, runs, timers, exited,
                max_seconds, procs, recDir, transDir, now, ev, cVars>>

\* The output directory is made, the logger set up, the model built.
T_Start ==
    /\ t_pc = "start"
    /\ \E ok \in BOOLEAN : t_pc' = IF ok THEN "check" ELSE "raised"
    /\ UNCHANGED <<t_segs, t_N, t_i, t_disk, t_buf, t_exists, t_stats, t_log>>
    /\ TFrame

\* (variant: the existence of the audio is not looked at before the output
\* file is created)
T_CheckLate ==
    /\ t_pc = "check"
    /\ t_pc' = "header"
    /\ UNCHANGED <<t_segs, t_N, t_i, t_disk, t_buf, t_exists, t_stats, t_log>>
    /\ TFrame

\* audio_file.exists(), else FileNotFoundError
T_Check ==
    /\ t_pc = "check"
    /\ t_pc' = IF t_exists THEN "header" ELSE "raised"
    /\ UNCHANGED <<t_segs, t_N, t_i, t_disk, t_buf, t_exists, t_stats, t_log>>
    /\ TFrame

\* with open(output_path, "w"): the header is written and the file closed
T_Header ==
    /\ t_pc = "header"
    /\ \E ok \in BOOLEAN :
          IF ok
          THEN t_pc' = "decode" /\ t_disk' = [exists |-> TRUE, data |-> THeader]
          ELSE t_pc' = "raised" /\ UNCHANGED t_disk
    /\ UNCHANGED <<t_segs, t_N, t_i, t_buf, t_exists, t_stats, t_log>>
    /\ TFrame

\* model.transcribe(...) returns the generator, or raises; then
\* open(output_path, "a")
T_Decode ==
    /\ t_pc = "decode"
    /\ \E ok \in BOOLEAN :
          /\ t_pc' = IF ok THEN "emit" ELSE "raised"
          /\ t_log' = IF ok THEN Append(t_log, Note("language", 0, <<>>))
                      ELSE t_log
    /\ UNCHANGED <<t_segs, t_N, t_i, t_disk, t_buf, t_exists, t_stats>>
    /\ TFrame

\* One iteration of "for i, segment in enumerate(segments)"; the generator
\* may raise instead of yielding.
T_Segment ==
    /\ t_pc = "emit"
    /\ t_i < Len(t_segs)
    /\ \E ok \in BOOLEAN, fl \in BOOLEAN :
          IF ~ok
          THEN /\ t_pc' = "raised"
               /\ t_disk' = [t_disk EXCEPT !.data = @ \o t_buf]
               /\ t_buf' = <<>>
               /\ UNCHANGED <<t_i, t_stats, t_log>>
          ELSE LET pending == t_buf \o TSegmentLine(t_i, t_segs[t_i + 1], t_N)
               IN  /\ t_i' = t_i + 1
                   /\ t_disk' = IF fl THEN [t_disk EXCEPT !.data = @ \o pending]
                                ELSE t_disk
                   /\ t_buf' = IF fl THEN <<>> ELSE pending
                   /\ \E elapsed \in ElapsedReadings :
                         t_stats' = CharRate(t_stats.chars
                                               + Len(Strip(t_segs[t_i + 1])),
                                             elapsed)
                   /\ t_log' = t_log \o TSegmentNotes(t_i, t_segs[t_i + 1], t_N)
                   /\ UNCHANGED t_pc
    /\ UNCHANGED <<t_segs, t_N, t_exists>>
    /\ TFrame

\* The generator is exhausted: the file is closed, the statistics logged;
\* the division of the average speed may raise.
T_Finish ==
    /\ t_pc = "emit"
    /\ t_i = Len(t_segs)
    /\ \E elapsed \in ElapsedReadings :
          /\ t_stats' = AverageSpeed(t_stats.chars, elapsed)
          /\ t_pc' = IF t_stats'.kind = "ZeroDivisionError" THEN "raised"
                     ELSE "returned"
    /\ t_disk' = [t_disk EXCEPT !.data = @ \o t_buf]
    /\ t_buf' = <<>>
    /\ UNCHANGED <<t_segs, t_N, t_i, t_exists, t_log>>
    /\ TFrame

(* --------------- transcribe_russian.py: transcribe_audio -------------- *)
SampleRates == {1, 2}
Devices == {"cpu", "cuda"}

\* What processor.batch_decode gives for a chunk.
ChunkTexts == {"da", "net net"}

\* int(np.ceil(duration / chunk_duration)), duration = frames / sample_rate
NumChunks(n, rate) ==
    (n + rate * chunk_duration - 1) \div (rate * chunk_duration)

\* f"[Error in chunk {i + 1}]", i the 0-based index of the chunk
Placeholder(i) == "[Error in chunk " \o ToString(i + 1) \o "]"

\* How the body of the inner try can end: it runs to its end; a statement
\* before the append raises; or, on a CUDA device, torch.cuda.empty_cache()
\* raises, which stands after the append.
ChunkOutcomes(dev) ==
    {"decoded", "failed"} \cup (IF dev = "cuda" THEN {"cleanup_failed"} ELSE {})

\* What one iteration appends to all_transcriptions.
ChunkEntries(i, outcome, text) ==
    CASE outcome = "decoded" -> <<text>>
      [] outcome = "failed" -> <<Placeholder(i)>>
      [] outcome = "cleanup_failed" -> <<text, Placeholder(i)>>

\* " ".join(entries)
RECURSIVE Join(_)
Join(entries) ==
    IF entries = <<>> THEN ""
    ELSE IF Len(entries) = 1 THEN entries[1]
    ELSE entries[1] \o " " \o Join(Tail(entries))

Returned(text) == [none |-> FALSE, text |-> text]
ReturnedNone == [none |-> TRUE, text |-> ""]

CFrame == UNCHANGED <<tuiVars, tVars>>

\* sf.info, the model and the processor loaded, temp_chunks made, the number
\* of chunks computed; any of the calls may raise, and the outer except
\* returns None.
C_Start ==
    /\ c_pc = "start"
    /\ \E ok \in BOOLEAN :
          IF ok
          THEN /\ c_pc' = "loop"
               /\ num_chunks' = NumChunks(frames, sample_rate)
               /\ UNCHANGED c_result
          ELSE /\ c_pc' = "returned"
               /\ c_result' = ReturnedNone
               /\ UNCHANGED num_chunks
    /\ UNCHANGED <<device, sample_rate, frames, chunk_i, all_transcriptions,
                   chunk_outcomes>>
    /\ CFrame

\* One iteration of "for i in range(num_chunks)".
C_Chunk ==
    /\ c_pc = "loop"
    /\ chunk_i < num_chunks
    /\ \E outcome \in ChunkOutcomes(device), text \in ChunkTexts :
          /\ all_transcriptions'
               = all_transcriptions \o ChunkEntries(chunk_i, outcome, text)
          /\ chunk_outcomes' = Append(chunk_outcomes, outcome)
    /\ chunk_i' = chunk_i + 1
    /\ UNCHANGED <<c_pc, device, sample_rate, frames, num_chunks, c_result>>
    /\ CFrame

\* The loop is over: temp_chunks is removed and the entries are joined;
\* rmtree may raise, and the outer except returns None.
C_Return ==
    /\ c_pc = "loop"
    /\ chunk_i = num_chunks
    /\ c_pc' = "returned"
    /\ \E ok \in BOOLEAN :
          c_result' = IF ok THEN Returned(Join(all_transcriptions))
                    ELSE ReturnedNone
    /\ UNCHANGED <<device, sample_rate, frames, num_chunks, chunk_i,
                   all_transcriptions, chunk_outcomes>>
    /\ CFrame

\* The chunked transcribe_audio is not called.
ChunkedOff ==
    /\ c_pc = "off" /\ device = "cpu" /\ sample_rate = 1 /\ frames = 0
    /\ num_chunks = 0 /\ chunk_i = 0 /\ all_transcriptions = <<>>
    /\ chunk_outcomes = <<>> /\ c_result = ReturnedNone

(* --------------------------- specifications --------------------------- *)
InitSession ==
    /\ recording_process = NoProc
    /\ current_recording = None
    /\ selected_audio_file = None
    /\ transcribe_task = NoTask
    /\ status = "idle"
    /\ model = None
    /\ model_size = None
    /\ runs = <<>>
    /\ timers = 0
    /\ procs = <<>>
    /\ transDir = [p \in MdPaths |-> [exists |-> FALSE, data |-> <<>>]]
    /\ now = 0
    /\ ev = Ev("init", "Ready")

\* The application is mounted; transcribe_audio is not called.
Init ==
    /\ InitSession
    /\ ChunkedOff
    /\ exited = FALSE
    /\ max_seconds = DefaultMaxSeconds
    /\ recDir \in {[p \in RecPaths |-> IF p = OldPath THEN o ELSE "missing"] :
                     o \in {"missing", "data"}}
    /\ t_pc = "off" /\ t_segs = <<>> /\ t_N = 1 /\ t_i = 0
    /\ t_disk = [exists |-> FALSE, data |-> <<>>]
    /\ t_buf = <<>> /\ t_exists = FALSE /\ t_stats = NoStats /\ t_log = <<>>

\* transcribe_audio is called; the application is not running.
InitCli ==
    /\ InitSession
    /\ ChunkedOff
    /\ exited = TRUE
    /\ max_seconds = DefaultMaxSeconds
    /\ recDir = [p \in RecPaths |-> "missing"]
    /\ t_pc = "start"
    /\ t_segs \in SeqsUpTo(MaxLen)
    /\ t_N \in 1..MaxN
    /\ t_i = 0
    /\ t_disk \in {[exists |-> FALSE, data |-> <<>>], [exists |-> TRUE, data |-> Stale]}
    /\ t_buf = <<>>
    /\ t_exists \in BOOLEAN
    /\ t_stats = NoStats
    /\ t_log = <<>>

Next ==
    \/ ActionToggleRecording /\ Len(procs') <= MaxRecs
    \/ CheckRecordingStatus
    \/ ActionTranscribe
    \/ OnFilePicked
    \/ ActionRequestQuit
    \/ ProcExit
    \/ RecWrite
    \/ \E r \in 1..Len(runs) : RunStart(r)
    \/ \E r \in 1..Len(runs) : RunSpawned(r)
    \/ \E r \in 1..Len(runs) : RunConverted(r)
    \/ \E r \in 1..Len(runs) : RunLoaded(r)
    \/ \E r \in 1..Len(runs) : RunDecoded(r)
    \/ \E r \in 1..Len(runs) : RunListed(r, 0..MaxSessSegs)
    \/ \E r \in 1..Len(runs) : RunEmit(r)

\* The session with recording and transcription.
Spec == Init /\ [][Next]_vars

\* The transcripts: the session transcribing files that are there already,
\* and transcribe_audio.
InitDoc == Init \/ InitCli

NextDoc ==
    \/ ActionTranscribe
    \/ OnFilePicked
    \/ ActionRequestQuit
    \/ \E r \in 1..Len(runs) : RunStart(r)
    \/ \E r \in 1..Len(runs) : RunSpawned(r)
    \/ \E r \in 1..Len(runs) : RunConverted(r)
    \/ \E r \in 1..Len(runs) : RunLoaded(r)
    \/ \E r \in 1..Len(runs) : RunDecoded(r)
    \/ \E r \in 1..Len(runs) : RunListed(r, 0..MaxSegs)
    \/ \E r \in 1..Len(runs) : RunEmit(r)
    \/ T_Start
    \/ T_Check
    \/ T_Header
    \/ T_Decode
    \/ T_Segment
    \/ T_Finish

SpecDoc == InitDoc /\ [][NextDoc]_vars

\* The application is mounted over a recordings directory that may hold two
\* earlier audio files.
InitLibrary ==
    /\ InitSession
    /\ ChunkedOff
    /\ exited = FALSE
    /\ max_seconds = DefaultMaxSeconds
    /\ recDir \in {[p \in RecPaths |-> IF p = OldPath THEN o
                                       ELSE IF p = OlderPath THEN oo
                                       ELSE "missing"] :
                     o \in {"missing", "data"}, oo \in {"missing", "data"}}
    /\ t_pc = "off" /\ t_segs = <<>> /\ t_N = 1 /\ t_i = 0
    /\ t_disk = [exists |-> FALSE, data |-> <<>>]
    /\ t_buf = <<>> /\ t_exists = FALSE /\ t_stats = NoStats /\ t_log = <<>>

\* The session choosing what to transcribe: every command but quit.
NextSource ==
    \/ ActionToggleRecording /\ Len(procs') <= MaxRecs
    \/ CheckRecordingStatus
    \/ ActionTranscribe
    \/ OnFilePicked
    \/ ProcExit
    \/ RecWrite
    \/ \E r \in 1..Len(runs) : RunStart(r)
    \/ \E r \in 1..Len(runs) : RunSpawned(r)
    \/ \E r \in 1..Len(runs) : RunConverted(r)
    \/ \E r \in 1..Len(runs) : RunLoaded(r)
    \/ \E r \in 1..Len(runs) : RunDecoded(r)
    \/ \E r \in 1..Len(runs) : RunListed(r, 0..MaxSessSegs)
    \/ \E r \in 1..Len(runs) : RunEmit(r)

SpecSource == InitLibrary /\ [][NextSource]_vars

\* Recording with the automatic transcription that follows it: the
\* Record/Stop key is the only command given.
NextAuto ==
    \/ ActionToggleRecording /\ Len(procs') <= MaxRecs
    \/ CheckRecordingStatus
    \/ ProcExit
    \/ RecWrite
    \/ \E r \in 1..Len(runs) : RunStart(r)
    \/ \E r \in 1..Len(runs) : RunSpawned(r)
    \/ \E r \in 1..Len(runs) : RunConverted(r)
    \/ \E r \in 1..Len(runs) : RunLoaded(r)
    \/ \E r \in 1..Len(runs) : RunDecoded(r)
    \/ \E r \in 1..Len(runs) : RunListed(r, 0..MaxAutoSegs)
    \/ \E r \in 1..Len(runs) : RunEmit(r)

SpecAuto == Init /\ [][NextAuto]_vars

\* One recording after another, each followed by its automatic
\* transcription: a stop, and a new start while the timer of the stopped
\* recording is still pending.
NextRestart ==
    \/ ActionToggleRecording /\ Len(procs') <= MaxRestartRecs
    \/ CheckRecordingStatus
    \/ ProcExit
    \/ RecWrite
    \/ \E r \in 1..Len(runs) : RunStart(r)
    \/ \E r \in 1..Len(runs) : RunSpawned(r)
    \/ \E r \in 1..Len(runs) : RunConverted(r)
    \/ \E r \in 1..Len(runs) : RunLoaded(r)
    \/ \E r \in 1..Len(runs) : RunDecoded(r)
    \/ \E r \in 1..Len(runs) : RunListed(r, 0..MaxRestartSegs)
    \/ \E r \in 1..Len(runs) : RunEmit(r)

SpecRestart == Init /\ [][NextRestart]_vars

\* "timeout --foreground N rec ...": timeout ends the tool after N seconds;
\* a duration of 0 disables the timeout.
TimeoutEnds == ProcExit /\ max_seconds > 0

\* The application is mounted with MAX_SECONDS unset, or set to 0.
InitTimeout ==
    /\ InitSession
    /\ ChunkedOff
    /\ exited = FALSE
    /\ max_seconds \in {0, DefaultMaxSeconds}
    /\ recDir \in {[p \in RecPaths |-> IF p = OldPath THEN o ELSE "missing"] :
                     o \in {"missing", "data"}}
    /\ t_pc = "off" /\ t_segs = <<>> /\ t_N = 1 /\ t_i = 0
    /\ t_disk = [exists |-> FALSE, data |-> <<>>]
    /\ t_buf = <<>> /\ t_exists = FALSE /\ t_stats = NoStats /\ t_log = <<>>

\* Recording left to itself: every armed timer fires, and a time limit that
\* is in force expires.
SpecTimeout ==
    /\ InitTimeout
    /\ [][NextAuto]_vars
    /\ WF_vars(CheckRecordingStatus)
    /\ WF_vars(TimeoutEnds)

\* transcribe_audio of transcribe_russian.py is called on an audio file of
\* up to MaxChunks chunks, the last of them full or not, on either device.
InitChunked ==
    /\ InitSession
    /\ exited = TRUE
    /\ max_seconds = DefaultMaxSeconds
    /\ recDir = [p \in RecPaths |-> "missing"]
    /\ t_pc = "off" /\ t_segs = <<>> /\ t_N = 1 /\ t_i = 0
    /\ t_disk = [exists |-> FALSE, data |-> <<>>]
    /\ t_buf = <<>> /\ t_exists = FALSE /\ t_stats = NoStats /\ t_log = <<>>
    /\ c_pc = "start"
    /\ device \in Devices
    /\ sample_rate \in SampleRates
    /\ frames \in 0..(MaxChunks * chunk_duration * sample_rate)
    /\ num_chunks = 0 /\ chunk_i = 0 /\ all_transcriptions = <<>>
    /\ chunk_outcomes = <<>> /\ c_result = ReturnedNone

NextChunked ==
    \/ C_Start
    \/ C_Chunk
    \/ C_Return

SpecChunked == InitChunked /\ [][NextChunked]_vars

(* ------------------------------ properties ---------------------------- *)
Last(s) == s[Len(s)]

RunIds == 1..Len(runs)

ActiveRuns == {r \in RunIds : runs[r].pc # "done"}

\* The trimmed texts of the segments, in emission order.
CliTexts == [i \in 1..Len(t_segs) |-> Strip(t_segs[i])]
TuiTexts(n) == [i \in 1..n |-> Strip(RawText(i))]

\* A transcript body as the specification words it: a blank, the text, a
\* newline, and one more newline after every position that is a multiple of
\* the interval.
RECURSIVE SpacedBody(_, _)
SpacedBody(texts, interval) ==
    IF texts = <<>> THEN <<>>
    ELSE LET p == Len(texts)
         IN  SpacedBody(SubSeq(texts, 1, p - 1), interval)
             \o <<" ">> \o texts[p] \o <<"\n">>
             \o (IF p % interval = 0 THEN <<"\n">> ELSE <<>>)

\* The same without the leading blank.
RECURSIVE PlainBody(_, _)
PlainBody(texts, interval) ==
    IF texts = <<>> THEN <<>>
    ELSE LET p == Len(texts)
         IN  PlainBody(SubSeq(texts, 1, p - 1), interval)
             \o texts[p] \o <<"\n">>
             \o (IF p % interval = 0 THEN <<"\n">> ELSE <<>>)

RunCompleted(r) ==
    runs[r].pc = "done" /\ runs[r].hist # <<>> /\ Last(runs[r].hist) = "done"

CliCompleted == t_pc = "returned"

\* C1: in every reachable state of the session there is no recording process
\* handle while a transcription task exists that is not done.
C1_NoRecordingWhileTranscribing ==
    ~(recording_process # NoProc
      /\ transcribe_task # NoTask /\ runs[transcribe_task].pc # "done")

\* A recording is running and the transcribe command has just been refused.
C1_Witness ==
    /\ recording_process # NoProc
    /\ ev.op = "transcribe"
    /\ ev.log = "Cannot transcribe while recording"

\* C2: the record command given while a transcription is active, and the
\* transcribe command given while a recording process exists, change no
\* session variable, create no process, no task and no timer, and report the
\* reason of the rejection.
C2_RejectedCommandChangesNothing ==
    [][/\ (ev'.op = "toggle_recording" /\ ~IsRecording /\ IsTranscribing)
          => /\ UNCHANGED sessionVars
             /\ UNCHANGED <<runs, procs, timers, recDir, transDir>>
             /\ ev'.log = "Cannot record while transcription is in progress"
       /\ (ev'.op = "transcribe" /\ IsRecording)
          => /\ UNCHANGED sessionVars
             /\ UNCHANGED <<runs, procs, timers, recDir, transDir>>
             /\ ev'.log = "Cannot transcribe while recording"]_vars

\* The record command has just been refused, the transcription still active.
C2_Witness ==
    /\ IsTranscribing
    /\ ev.op = "toggle_recording"
    /\ ev.log = "Cannot record while transcription is in progress"

\* C3: at most one run_transcription task is not done at any time.
C3_AtMostOneActiveRun == Cardinality(ActiveRuns) <= 1

\* A second run is active after the first has ended, and the transcribe
\* command has just been refused because of it.
C3_Witness ==
    /\ Len(runs) = 2
    /\ runs[1].pc = "done"
    /\ runs[2].pc # "done"
    /\ ev.log = "Transcription already in progress"

C5_AsStated ==
    /\ \A r \in RunIds :
          runs[r].fopen
          => transDir[runs[r].out].data
               = Header(runs[r]) \o PlainBody(TuiTexts(runs[r].k), LineBreakEvery)
    /\ t_pc = "emit"
       => t_disk.data = THeader \o SpacedBody(SubSeq(CliTexts, 1, t_i), t_N)

\* C6: a run cancelled while it was writing its transcript, k segments
\* processed, ends with the status cancelled and with a closed file that
\* holds the header and exactly the first k segment lines.
C6_CancelledAfterK ==
    \A r \in RunIds :
       (runs[r].cancelReq /\ runs[r].pc = "done" /\ runs[r].out # None)
       => /\ Last(runs[r].hist) = "cancelled"
          /\ status = "cancelled"
          /\ ~runs[r].fopen
          /\ transDir[runs[r].out].data
               = Header(runs[r])
                 \o PlainBody(TuiTexts(runs[r].kAtCancel), LineBreakEvery)

\* A run of five segments cancelled after two, and ended.
C6_Witness ==
    \E r \in RunIds :
       /\ runs[r].cancelReq /\ runs[r].pc = "done"
       /\ runs[r].n = 5 /\ runs[r].kAtCancel = 2
       /\ runs[r].out # None

\* C7 (as stated): once a run whose cancellation was requested has ended,
\* the status is cancelled.
C7_AsStated ==
    \A r \in RunIds :
       (runs[r].cancelReq /\ runs[r].pc = "done") => status = "cancelled"

\* C8: a run whose converter has exited with a non-zero code has ended, its
\* statuses were converting and then error and nothing else, and it has
\* opened no transcript file.
C8_ConversionFailure ==
    \A r \in RunIds :
       runs[r].convRet > 0
       => /\ runs[r].pc = "done"
          /\ runs[r].hist = <<"converting", "error">>
          /\ runs[r].out = None
          /\ ~runs[r].fopen

\* A run has ended on a converter exit code of 1, the status is error.
C8_Witness ==
    \E r \in RunIds :
       runs[r].convRet = 1 /\ runs[r].pc = "done" /\ status = "error"

\* C9: after stop_recording on a handle the handle is cleared and the
\* process is not running, and when the wait had timed out SIGKILL was sent
\* to the group.
C9_StopLeavesNoProcess ==
    ev.stop # "none"
    => /\ recording_process = NoProc
       /\ procs[ev.proc].st # "running"
       /\ (ev.stop = "timeout" => ev.term /\ ev.kill)

\* stop_recording has just escalated to SIGKILL.
C9_Witness == ev.stop = "timeout" /\ ev.kill /\ recording_process = NoProc

\* C10 (as stated): when the poll finds the recording tool exited, a
\* transcription is started exactly when the recording file exists and is
\* not empty.
C10_AsStated ==
    (ev.op = "check_recording_status" /\ ev.finished)
    => (ev.started <=> ev.file = "data")

UserOps == {"toggle_recording", "transcribe", "file_picked", "request_quit"}

Stages == <<"converting", "loading_model", "transcribing">>

Terminal == {"done", "error", "cancelled"}

\* The stage statuses in order, up to some stage, then at most one terminal
\* status.
Forward(hist) ==
    \E j \in 0..Len(Stages) :
       \/ hist = SubSeq(Stages, 1, j)
       \/ \E x \in Terminal : hist = Append(SubSeq(Stages, 1, j), x)

\* C13: the statuses a run has set so far are converting, loading_model,
\* transcribing in this order up to some stage, followed by at most one
\* terminal status, after which the run has ended; a run that set done set
\* all three stage statuses before it and has processed every segment of its
\* list.
C13_StatusMovesForward ==
    \A r \in RunIds :
       /\ Forward(runs[r].hist)
       /\ (runs[r].hist # <<>> /\ Last(runs[r].hist) \in Terminal)
          => runs[r].pc = "done"
       /\ (runs[r].hist # <<>> /\ Last(runs[r].hist) = "done")
          => /\ runs[r].hist = Stages \o <<"done">>
             /\ runs[r].k = runs[r].n
             /\ ~runs[r].fopen

\* A second run has completed with the model of the first still cached.
C13_Witness ==
    /\ Len(runs) = 2
    /\ RunCompleted(2)
    /\ runs[2].n = MaxSegs
    /\ runs[2].conv = "exited"

\* C14 (as stated): a run that has ended without having been cancelled has
\* set a terminal status, done or error, as its last status: an exception
\* never ends a run silently.
C14_AsStated ==
    \A r \in RunIds :
       (runs[r].pc = "done" /\ runs[r].outcome # "pending" /\ ~runs[r].cancelReq)
       => /\ runs[r].outcome = "returned"
          /\ runs[r].hist # <<>>
          /\ Last(runs[r].hist) \in {"done", "error"}

HasStatus(hist, s) == \E i \in 1..Len(hist) : hist[i] = s

\* C15: a run that has set the status error has ended and takes no further
\* step; a failed launch leaves no handle; a recording process is created
\* only by a step of the record command, and a run only by a step of the
\* transcribe command or by the step that ends a recording whose handle
\* existed.
C15_NoAutomaticRetry ==
    /\ [](\A r \in RunIds : HasStatus(runs[r].hist, "error") => runs[r].pc = "done")
    /\ [](ev.log = "Error: 'rec' (sox) not found" => recording_process = NoProc)
    /\ [][/\ Len(procs') > Len(procs) => ev'.op = "toggle_recording"
          /\ Len(runs') > Len(runs)
             => \/ ev'.op = "transcribe"
                \/ (recording_process # NoProc /\ ev'.finished)
          /\ \A r \in RunIds :
                runs[r].pc = "done" => runs'[r].pc = "done"]_vars

\* A run has just ended in error: the status shows it, the task is done and
\* no recording handle exists.
C15_Witness ==
    /\ ev.op = "run"
    /\ status = "error"
    /\ runs[ev.proc].pc = "done"
    /\ HasStatus(runs[ev.proc].hist, "error")
    /\ recording_process = NoProc

\* The step has created a task for the audio file a and made it the
\* session's task.
StartedOn(a) ==
    /\ Len(runs') = Len(runs) + 1
    /\ runs'[Len(runs')].audio = a
    /\ runs'[Len(runs')].pc = "created"
    /\ transcribe_task' = Len(runs')
    /\ ev'.started

C17_AsStated ==
    [][/\ (current_recording' # current_recording
           \/ selected_audio_file' # selected_audio_file)
          => (ev'.finished \/ ev'.op = "file_picked")
       /\ ev'.log = "Error: 'rec' (sox) not found"
          => PreferredAudio' = PreferredAudio]_vars

C19_ModelCache ==
    /\ [](model = model_size)
    /\ [][\A r \in RunIds :
            /\ (runs[r].pc = "conv_wait"
                /\ runs'[r].pc \in {"load_wait", "decode_wait"})
               => /\ (runs'[r].pc = "load_wait")
                     <=> (model = None \/ model_size # runs[r].size)
                  /\ model' = model /\ model_size' = model_size
            /\ (runs[r].pc = "load_wait" /\ runs'[r].pc = "decode_wait")
               => (model' = runs[r].size /\ model_size' = runs[r].size)
            /\ (runs[r].pc = "load_wait" /\ runs'[r].pc = "done")
               => (model' = model /\ model_size' = model_size)]_vars

\* A second run asks for another size than the one cached and waits for
\* its load.
C19_Witness ==
    /\ Len(runs) = 2
    /\ runs[2].pc = "load_wait"
    /\ model # None
    /\ model # runs[2].size

\* C20 (as stated): every rate transcribe_audio has computed, for a segment
\* or in its final statistics, is not negative, is 0 when the elapsed time
\* is 0 and total_chars / elapsed_time otherwise, and no division by zero
\* occurs.
C20_AsStated ==
    t_stats.kind # "none"
    => /\ t_stats.kind # "ZeroDivisionError"
       /\ t_stats.num * t_stats.den >= 0
       /\ t_stats.elapsed = 0 => t_stats.num = 0
       /\ t_stats.elapsed > 0
          => t_stats.num * t_stats.elapsed = t_stats.chars * t_stats.den

IsProgress(x) == x.what = "progress"
IsWrite(x) == x.what = "write"
IsLanguage(x) == x.what = "language"

\* The snapshots published and the lines written by a run, in order.
Published(r) == SelectSeq(runs[r].trace, IsProgress)
Written(r) == SelectSeq(runs[r].trace, IsWrite)

\* C21: within one run the progress snapshots carry the segment counts
\* 1, 2, 3, ... without gap or repeat, the n-th snapshot shows the n-th
\* segment of the model, and the n-th line written to the transcript is that
\* same segment: what the file object has taken is the header and the lines of
\* the segments in emission order. The same holds for the lines and the
\* progress bar of transcribe_audio.
C21_PublicationOrder ==
    /\ \A r \in RunIds :
          /\ Len(Published(r)) = runs[r].k
          /\ Len(Written(r)) = runs[r].k
          /\ \A n \in 1..runs[r].k :
                /\ Published(r)[n].count = n
                /\ Published(r)[n].text = Strip(RawText(n))
                /\ Written(r)[n] = Note("write", n, Published(r)[n].text)
          /\ runs[r].out # None
             => transDir[runs[r].out].data \o runs[r].buf
                  = Header(runs[r])
                    \o PlainBody(TuiTexts(runs[r].k), LineBreakEvery)
    /\ t_log # <<>>
       => /\ Len(SelectSeq(t_log, IsProgress)) = t_i
          /\ Len(SelectSeq(t_log, IsWrite)) = t_i
          /\ \A n \in 1..t_i :
                /\ SelectSeq(t_log, IsProgress)[n].count = n
                /\ SelectSeq(t_log, IsWrite)[n] = Note("write", n, CliTexts[n])
          /\ t_disk.data \o t_buf
               = THeader \o SpacedBody(SubSeq(CliTexts, 1, t_i), t_N)

\* A run of the session has published its third snapshot and is suspended in
\* the loop, two more segments to come.
C21_Witness ==
    \E r \in RunIds :
       /\ runs[r].pc = "emit" /\ runs[r].k = 3 /\ runs[r].n = 5
       /\ Last(runs[r].trace) = Note("write", 3, Strip(RawText(3)))

\* C22 (as stated): a progress snapshot with segment count n is published
\* only after the n-th segment's line has been written to the transcript
\* file: in the order of the run's statements a write of n stands before the
\* snapshot of n.
C22_AsStated ==
    \A r \in RunIds :
       \A i \in 1..Len(runs[r].trace) :
          IsProgress(runs[r].trace[i])
          => \E j \in 1..(i - 1) :
                /\ IsWrite(runs[r].trace[j])
                /\ runs[r].trace[j].count = runs[r].trace[i].count

\* C23 (as stated): a run whose segment stream failed after it had produced
\* k segments ends with the status error and a transcript that holds the
\* header and exactly the lines of those k segments; likewise the file of a
\* transcribe_audio call that raised during the loop.
C23_AsStated ==
    /\ \A r \in RunIds :
          (runs[r].pc = "done" /\ runs[r].cause = "stream")
          => /\ Last(runs[r].hist) = "error"
             /\ transDir[runs[r].out].data
                  = Header(runs[r])
                    \o PlainBody(TuiTexts(runs[r].produced), LineBreakEvery)
    /\ (t_pc = "raised" /\ t_log # <<>>)
       => t_disk.data = THeader \o SpacedBody(SubSeq(CliTexts, 1, t_i), t_N)

\* C24 (as stated): a run whose output file could not be opened has launched
\* no converter, has loaded no model and has invoked no decode: it failed
\* before any stage.
C24_AsStated ==
    \A r \in RunIds :
       runs[r].cause = "open"
       => /\ runs[r].conv = "none"
          /\ ~HasStatus(runs[r].hist, "converting")
          /\ ~HasStatus(runs[r].hist, "loading_model")
          /\ ~HasStatus(runs[r].hist, "transcribing")

\* What the run's file object has taken so far: the disk and the buffer.
Taken(rs, dir, r) ==
    IF rs[r].out = None THEN <<>> ELSE dir[rs[r].out].data \o rs[r].buf

\* C25: once the cancellation of a run has been requested, no further
\* segment is processed: the run has published and written exactly the
\* segments it had processed when the request was made, and no later step
\* adds a snapshot or a line to the transcript.
C25_NothingAfterCancel ==
    /\ [](\A r \in RunIds :
             runs[r].cancelReq
             => /\ runs[r].k = runs[r].kAtCancel
                /\ Len(Published(r)) = runs[r].kAtCancel
                /\ Len(Written(r)) = runs[r].kAtCancel)
    /\ [][\A r \in RunIds :
             runs[r].cancelReq
             => /\ runs'[r].trace = runs[r].trace
                /\ Taken(runs', transDir', r) = Taken(runs, transDir, r)]_vars

\* A run of four segments whose cancellation was requested during the loop,
\* one segment processed, has ended with that one segment.
C25_Witness ==
    \E r \in RunIds :
       /\ runs[r].cancelReq /\ runs[r].pc = "done"
       /\ runs[r].n = 4 /\ runs[r].kAtCancel = 1
       /\ Len(Written(r)) = 1 /\ Last(runs[r].hist) = "cancelled"

\* The session's task has ended, whatever its outcome, and nothing records.
TaskEnded ==
    /\ transcribe_task # NoTask
    /\ runs[transcribe_task].pc = "done"
    /\ recording_process = NoProc

\* C26: a task that has ended (done, error, conversion failure, cancelled,
\* or an exception) does not count as an active transcription, and the
\* command given next is accepted: the record command launches the recording
\* tool (or reports that the tool is missing), the transcribe command starts
\* a new run; neither is refused because of the ended task.
C26_EndedTaskReleasesSession ==
    /\ [](TaskEnded => ~IsTranscribing)
    /\ [][TaskEnded
          => /\ ev'.op = "toggle_recording"
                => /\ ev'.log \in {"Recording to", "Error: 'rec' (sox) not found"}
                   /\ ev'.log = "Recording to" => recording_process' # NoProc
             /\ ev'.op = "transcribe"
                => /\ ev'.log = "Starting transcription"
                   /\ transcribe_task' = Len(runs')
                   /\ runs'[transcribe_task'].pc = "created"]_vars

\* A run has ended in error, and the record command given after it has
\* started a recording.
C26_Witness ==
    /\ transcribe_task # NoTask
    /\ runs[transcribe_task].pc = "done"
    /\ HasStatus(runs[transcribe_task].hist, "error")
    /\ ev.op = "toggle_recording"
    /\ ev.log = "Recording to"
    /\ recording_process # NoProc

\* With a time limit in force, a recording ends with the handle cleared
\* whether or not the user stops it.
RecordingEndsWhenLimited ==
    (max_seconds > 0 /\ recording_process # NoProc)
       ~> (recording_process = NoProc)

\* C27 (as stated): every recording that was started ends with the handle
\* cleared, whether or not the user stops it.
C27_AsStated == (recording_process # NoProc) ~> (recording_process = NoProc)

\* C28 (as stated): once a run has ended, however it ended, the converter
\* process it launched is not running any more; and no recording process is
\* running without a handle.
C28_AsStated ==
    /\ \A r \in RunIds : runs[r].pc = "done" => runs[r].conv # "running"
    /\ \A p \in 1..Len(procs) :
          procs[p].st = "running" => recording_process = p

\* C29: when stop_recording finds the recording process gone
\* (ProcessLookupError on the graceful and on the forceful signal), the
\* handler still runs to its end: finish_recording has cleared the handle and
\* set the status by what is on disk, an automatic transcription included,
\* and no signal was delivered.
C29_GoneProcessStillStops ==
    [][ev'.stop = "gone"
       => /\ recording_process # NoProc
          /\ recording_process' = NoProc
          /\ ev'.proc = recording_process
          /\ ev'.finished
          /\ ~ev'.term /\ ~ev'.kill
          /\ procs'[ev'.proc] = Gone
          /\ status' = (IF ev'.started THEN "idle" ELSE "error")
          /\ ev'.started <=> ev'.file # "missing"]_vars

\* The stop command found the process gone, cleared the handle and started
\* the transcription of what the tool had recorded.
C29_Witness ==
    /\ ev.op = "toggle_recording"
    /\ ev.stop = "gone"
    /\ ev.finished /\ ev.started
    /\ recording_process = NoProc
    /\ transcribe_task # NoTask

\* Every snapshot and every segment line of the trace has the language
\* line before it.
LanguageFirst(trace) ==
    \A i \in 1..Len(trace) :
       (IsProgress(trace[i]) \/ IsWrite(trace[i]))
       => \E j \in 1..(i - 1) : IsLanguage(trace[j])

\* C30: a run whose decode call has returned has logged the detected
\* language, and it has done so before it writes or publishes its first
\* segment (before it even opens the transcript); the same holds for
\* transcribe_audio.
C30_LanguageBeforeSegments ==
    /\ \A r \in RunIds :
          /\ LanguageFirst(runs[r].trace)
          /\ (runs[r].pc \in {"list_wait", "emit"} \/ runs[r].out # None)
             => (runs[r].trace # <<>> /\ IsLanguage(runs[r].trace[1]))
    /\ LanguageFirst(t_log)
    /\ t_pc = "emit" => (t_log # <<>> /\ IsLanguage(t_log[1]))

\* A run has logged the language and then processed its first segment.
C30_Witness ==
    \E r \in RunIds :
       /\ Len(runs[r].trace) = 3
       /\ IsLanguage(runs[r].trace[1])
       /\ IsWrite(runs[r].trace[3])
       /\ runs[r].k = 1

\* C31: between handlers the status is "recording" exactly when the session
\* holds a recording process handle, and a recording tool that is running is
\* the one the handle names.
C31_RecordingStatusIffHandle ==
    /\ status = "recording" <=> recording_process # NoProc
    /\ \A p \in 1..Len(procs) :
          procs[p].st = "running" => (recording_process = p /\ status = "recording")

\* A run has ended in error, a recording started after it is running, and
\* the status shows it.
C31_Witness ==
    /\ status = "recording"
    /\ recording_process # NoProc
    /\ procs[recording_process].st = "running"
    /\ transcribe_task # NoTask
    /\ HasStatus(runs[transcribe_task].hist, "error")

PipelineStatus == {Stages[i] : i \in 1..Len(Stages)}

\* A run that has ended and has not been forgotten yet.
Ended(r) == runs[r].pc = "done" /\ runs[r].outcome # "pending"

\* While a stage status is shown, the session's task is active, it is the
\* task that set the status, and no recording process handle exists.
StageStatusHasActiveRun ==
    status \in PipelineStatus
    => /\ IsTranscribing
       /\ Last(runs[transcribe_task].hist) = status
       /\ recording_process = NoProc

\* C32 (as stated): while the status is converting, loading_model or
\* transcribing a transcription task is active and no recording process
\* exists, and every path by which a run ends has set a terminal status
\* before the task completes.
C32_AsStated ==
    /\ StageStatusHasActiveRun
    /\ \A r \in RunIds :
          Ended(r) => (runs[r].hist # <<>> /\ Last(runs[r].hist) \in Terminal)

\* C33: finish_recording runs exactly once for every recording that was
\* launched and is over, and not yet for the one the handle names; it runs
\* only for the process the handle names, clearing the handle, whatever the
\* order of stops, new starts and timers; and each call starts at most one
\* transcription, no transcription being started by these handlers otherwise.
C33_FinishExactlyOnce ==
    /\ [](\A p \in 1..Len(procs) :
             procs[p].fins = (IF recording_process = p THEN 0 ELSE 1))
    /\ [][/\ ev'.finished
             => /\ recording_process # NoProc
                /\ ev'.proc = recording_process
                /\ recording_process' = NoProc
                /\ procs'[ev'.proc].fins = 1
                /\ Len(runs') = Len(runs) + (IF ev'.started THEN 1 ELSE 0)
          /\ (~ev'.finished
              /\ ev'.op \in {"toggle_recording", "check_recording_status"})
             => /\ Len(runs') = Len(runs)
                /\ \A p \in 1..Len(procs) : procs'[p].fins = procs[p].fins]_vars

\* A recording was stopped and a second one started before the timer of the
\* first had fired; the poll has finished the second, and one timer is still
\* pending.
C33_Witness ==
    /\ Len(procs) = 2
    /\ procs[1].fins = 1 /\ procs[2].fins = 1
    /\ ev.op = "check_recording_status"
    /\ ev.finished /\ ev.proc = 2
    /\ timers = 1

\* A run that was cancelled before its first step.
Unstarted(run) ==
    /\ run.cancelReq
    /\ run.pc = "created" \/ run.outcome = "cancelled"

\* C34: the quit command leaves no recording process handle, and every task
\* finished or with its cancellation requested; the transcription that
\* finish_recording starts inside the quit command is cancelled before its
\* first step, and such a run never sets a status, launches a converter,
\* opens a transcript or changes the transcripts directory.
C34_QuitStopsEverything ==
    /\ [](exited
          => /\ recording_process = NoProc
             /\ \A r \in RunIds : runs[r].pc = "done" \/ runs[r].cancelReq)
    /\ [](\A r \in RunIds :
             Unstarted(runs[r])
             => /\ runs[r].hist = <<>> /\ runs[r].trace = <<>>
                /\ runs[r].conv = "none" /\ runs[r].out = None)
    /\ [][/\ (ev'.op = "request_quit" /\ ev'.started)
             => /\ transcribe_task' = Len(runs')
                /\ runs'[transcribe_task'].pc = "created"
                /\ runs'[transcribe_task'].cancelReq
          /\ (\E r \in RunIds : Unstarted(runs[r]) /\ runs[r].pc = "created")
             => /\ transDir' = transDir
                /\ status' = status]_vars

\* Quit was given while a recording with a file on disk was running; the
\* automatic transcription has ended without a step, and no transcript
\* exists.
C34_Witness ==
    /\ exited
    /\ Len(procs) = 1 /\ procs[1].fins = 1
    /\ transcribe_task # NoTask
    /\ runs[transcribe_task].outcome = "cancelled"
    /\ runs[transcribe_task].audio = current_recording
    /\ \A p \in DOMAIN transDir : ~transDir[p].exists

\* The number of terminal statuses in a status history.
RECURSIVE TerminalCount(_)
TerminalCount(hist) ==
    IF hist = <<>> THEN 0
    ELSE TerminalCount(Tail(hist)) + (IF Head(hist) \in Terminal THEN 1 ELSE 0)

\* C35 (as stated): a run that has finished has set exactly one terminal
\* status, as its last, and the status shown is that one: no run finishes
\* leaving a stage status or the status from before its creation.
C35_AsStated ==
    \A r \in RunIds :
       (Ended(r) /\ transcribe_task = r)
       => /\ TerminalCount(runs[r].hist) = 1
          /\ Last(runs[r].hist) \in Terminal
          /\ status = Last(runs[r].hist)


\* The stages of transcribe_audio from the creation of the output file on.
OutputStages == {"header", "decode", "emit", "returned"}

\* C36: when the audio file does not exist, transcribe_audio of
\* transcribe.py never gets to the creation of the output file, and no step
\* of the call changes what is at the output path: a transcript that was
\* there stays as it was, and none is created.
C36_MissingAudioKeepsOutput ==
    /\ [](~t_exists => t_pc \notin OutputStages)
    /\ [][~t_exists => t_disk' = t_disk]_vars

\* The call has raised for a missing audio file with an earlier transcript
\* at the output path, which is still whole.
C36_Witness ==
    /\ t_pc = "raised"
    /\ ~t_exists
    /\ t_disk = [exists |-> TRUE, data |-> Stale]
    /\ t_buf = <<>>


\* ceil(frames / rate / chunk_duration): the least number of chunks of
\* chunk_duration seconds that cover the audio.
CeilChunks(n, rate) ==
    CHOOSE k \in 0..(n + 1) :
       /\ k * chunk_duration * rate >= n
       /\ \A j \in 0..(k - 1) : j * chunk_duration * rate < n

\* The n-th entry of the list is what the n-th chunk gave: its text when it
\* was decoded, the placeholder with its own number when it failed.
EntryOfChunk(n) ==
    IF chunk_outcomes[n] = "decoded"
    THEN all_transcriptions[n] \in ChunkTexts
    ELSE all_transcriptions[n] = Placeholder(n - 1)

\* One entry per chunk, in chunk order, and the result is their join.
OneEntryPerChunk ==
    /\ Len(all_transcriptions) = CeilChunks(frames, sample_rate)
    /\ Len(chunk_outcomes) = Len(all_transcriptions)
    /\ \A n \in 1..Len(all_transcriptions) : EntryOfChunk(n)
    /\ c_result.text = Join(all_transcriptions)

\* A call that returned its text with no failure after an append (always
\* so on the CPU) joined one entry per chunk.
ChunkedWithoutLateFailure ==
    (/\ c_pc = "returned"
     /\ ~c_result.none
     /\ \A n \in 1..Len(chunk_outcomes) : chunk_outcomes[n] # "cleanup_failed")
    => OneEntryPerChunk

\* C37 (as stated): whenever the chunked transcribe_audio returns its text,
\* for whatever duration, the text joins exactly ceil(duration / 30)
\* entries, one per chunk and in chunk order, a failed chunk giving the
\* placeholder with its own number and nothing else.
C37_AsStated ==
    (c_pc = "returned" /\ ~c_result.none) => OneEntryPerChunk
====
